---- MODULE Spec2Model ----
(***************************************************************************)
(* Offline-first synchronisation engine of the PDV terminal.               *)
(*                                                                         *)
(* The repository ships the engine in two variants, and the model keeps    *)
(* both:                                                                   *)
(*   - the remote-API variant: ProductService -> PdvApiService ->          *)
(*     HttpApiService / LocalCacheService  (specification SpecApi);        *)
(*   - the shared-database variant: ProductService ->                      *)
(*     NetworkDatabaseService, one SQLite handle switched between the      *)
(*     primary (network) file and the local backup file                    *)
(*     (specifications SpecNet for the mode controller and SpecTxn for     *)
(*     the statement-level run of createSale on one handle).               *)
(* Money is counted in integer minor units, quantities are integers.       *)
(***************************************************************************)
EXTENDS Integers, Sequences, FiniteSets, TLC

VARIABLES
    \* ---- remote-API variant ------------------------------------------
    phase,            \* "constructed" before PdvApiService.initialize, then "ready"
    pdvIsOnline,      \* PdvApiService.isOnline
    cache_produtos,   \* LocalCacheService: rows of table cache_produtos
    vendas_pendentes, \* LocalCacheService: rows of table vendas_pendentes (by id)
    lastSyncTime,     \* LocalCacheService.lastSyncTime (0 = null)
    cache_config,     \* cache_config['last_sync_time'] (0 = no row)
    clock,            \* wall clock read by new Date()
    authority,        \* remote authority: catalog it serves, sales it applied
    nCreated,         \* number of createSale calls made so far (sale tags)
    syncRun,          \* the forceSync run in flight: its position and work list
    lastOp,           \* the last operation and what it returned to its caller
    \* ---- shared-database variant: mode controller ----------------------
    netPhase,         \* "constructed", "initializing", "ready" or "failed"
    net,              \* the network directory is accessible (environment)
    handles,          \* every handle open() returned so far: its store, open or closed
    db,               \* NetworkDatabaseService.db: a handle id, 0 = null
    isOnline,         \* NetworkDatabaseService.isOnline
    isOfflineMode,    \* NetworkConfig.config.isOfflineMode
    reconnectionTimer,\* NetworkDatabaseService.reconnectionTimer is set
    syncTimer,        \* NetworkDatabaseService.syncTimer is set
    tasks,            \* async callbacks in flight, in the order they started
    stores,           \* the two database files: primary and backup
    nSales,           \* createSale calls made so far on this service
    netLast,          \* the last operation of the service and its result
    \* ---- shared-database variant: createSale statement by statement ----
    data,             \* the database as the connection this.db sees it
    tx,               \* the connection's transaction: active, and the state ROLLBACK restores
    calls,            \* the createSale calls: position and locals of each
    \* ---- remote-API variant: LocalCacheService statement by statement ---
    cacheTx,          \* transaction of the cache connection: active, and what ROLLBACK restores
    syncCall,         \* the syncProdutos call: position, rows left to insert, its input
    cacheLast,        \* the last cache operation and what its caller got
    \* ---- remote-API variant: the push of the pending queue ---------------
    created_at,       \* vendas_pendentes.created_at, by row id
    pushRuns,         \* the syncPendingSales calls: position, list fetched, ids submitted
    acked,            \* sales (tags) the authority answered with success
    \* ---- remote-API variant: one HttpApiService request ------------------
    http              \* the request: attempts, what the caller got, what the authority received

apiVars == <<phase, pdvIsOnline, cache_produtos, vendas_pendentes, lastSyncTime,
             cache_config, clock, authority, nCreated, syncRun, lastOp>>

netVars == <<netPhase, net, handles, db, isOnline, isOfflineMode, reconnectionTimer,
             syncTimer, tasks, stores, nSales, netLast>>

txnVars == <<data, tx, calls>>

cacheVars == <<cacheTx, syncCall, cacheLast>>

pushVars == <<created_at, pushRuns, acked>>

httpVars == <<http>>

vars == <<apiVars, netVars, txnVars, cacheVars, pushVars, httpVars>>

-----------------------------------------------------------------------------
(* Bounds of the model *)

MaxSales == 2
MaxClock == 2
MaxHandles == 4
MaxTasks == 2
MaxCalls == 3
MaxRuns == 2
MaxApplied == 2

-----------------------------------------------------------------------------
(* Data *)

Null == [null |-> TRUE]

Row(id, codigo, estoque, preco, ativo) ==
    [id |-> id, codigo |-> codigo, estoque |-> estoque, preco |-> preco, ativo |-> ativo]

\* Bodies that GET /produtos/sync can return.  The body is parsed JSON and is
\* inserted as received: nothing in the terminal constrains its numbers.
CatalogResponses ==
    { << Row(1, "A", 2, 3, TRUE), Row(2, "B", 1, 5, TRUE) >>,
      << Row(1, "A", 0 - 1, 0 - 3, TRUE) >>,
      << Row(1, "A", 3, 3, TRUE), Row(1, "B", 1, 5, TRUE) >> }

Item(codigo, quantidade, preco_unitario) ==
    [codigo |-> codigo, quantidade |-> quantidade, preco_unitario |-> preco_unitario]

\* Item lists the renderer hands to sale:create.
SaleInputs ==
    { << Item("A", 2, 3) >>,
      << Item("A", 2, 3), Item("A", 1, 3) >>,
      << Item("A", 1, 3), Item("B", 1, 5) >>,
      << >> }

\* Outcome of one POST /vendas as the terminal and the authority see it.
\*   "ok"      request applied, acknowledgment received
\*   "refused" request not applied (connection error on every attempt, HTTP error)
\*   "ackLost" request applied, acknowledgment lost (timeout)
PostOutcomes == {"ok", "refused", "ackLost"}

\* defaultConfig.retries of ApiConfig: the one retry maximum the terminal configures.
retries == 3

RECURSIVE SumSeq(_)
SumSeq(s) == IF s = << >> THEN 0 ELSE Head(s) + SumSeq(Tail(s))

\* items.reduce((sum, item) => sum + item.quantidade * item.preco_unitario, 0)
ReduceTotal(items) ==
    SumSeq([i \in 1..Len(items) |-> items[i].quantidade * items[i].preco_unitario])

\* Quantity of one product over all lines of a sale.
QtyOf(items, codigo) ==
    SumSeq([i \in 1..Len(items) |->
              IF items[i].codigo = codigo THEN items[i].quantidade ELSE 0])

CodesOf(items) == {items[i].codigo : i \in 1..Len(items)}

-----------------------------------------------------------------------------
(* LocalCacheService *)

\* SELECT * FROM cache_produtos WHERE codigo = ? AND ativo = true LIMIT 1
CacheFind(rows, codigo) ==
    LET m == {r \in rows : r.codigo = codigo /\ r.ativo}
    IN  IF m = {} THEN Null ELSE CHOOSE r \in m : TRUE

\* The INSERT loop of syncProdutos: id is the PRIMARY KEY and codigo is UNIQUE,
\* so an insert that repeats either fails.
RECURSIVE InsertAll(_, _)
InsertAll(rows, produtos) ==
    IF produtos = << >> THEN [ok |-> TRUE, rows |-> rows]
    ELSE LET p == Head(produtos)
         IN  IF \E r \in rows : r.id = p.id \/ r.codigo = p.codigo
             THEN [ok |-> FALSE, rows |-> rows]
             ELSE InsertAll(rows \cup {p}, Tail(produtos))

\* syncProdutos as a merge by key that adds the received stock to the cached
\* stock instead of replacing the row.
SyncProdutosMerge(rows, produtos) ==
    LET Cached(p) == {r \in rows : r.id = p.id}
        Merged(p) == IF Cached(p) = {} THEN p
                     ELSE [p EXCEPT !.estoque = @ + (CHOOSE r \in Cached(p) : TRUE).estoque]
    IN  [ok |-> TRUE,
         rows |-> {r \in rows : \A i \in 1..Len(produtos) : produtos[i].id # r.id}
                  \cup {Merged(produtos[i]) : i \in 1..Len(produtos)}]

\* syncProdutos: BEGIN; DELETE FROM cache_produtos; INSERT each; COMMIT, and
\* ROLLBACK when an insert throws.
SyncProdutos(rows, produtos) ==
    LET r == InsertAll({}, produtos)
    IN  IF r.ok THEN r ELSE [ok |-> FALSE, rows |-> rows]

\* The row addPendingSale inserts: status 'PENDENTE', tentativas DEFAULT 0.
PendingRow(tag, venda_data) ==
    [tag |-> tag, venda_data |-> venda_data, status |-> "PENDENTE", tentativas |-> 0]

addPendingSale(q, tag, venda_data) == Append(q, PendingRow(tag, venda_data))

\* SELECT * FROM vendas_pendentes WHERE status = 'PENDENTE' (ids, oldest first)
RECURSIVE PendingIdsFrom(_, _)
PendingIdsFrom(q, i) ==
    IF i > Len(q) THEN << >>
    ELSE IF q[i].status = "PENDENTE" THEN << i >> \o PendingIdsFrom(q, i + 1)
         ELSE PendingIdsFrom(q, i + 1)

getPendingSales(q) == PendingIdsFrom(q, 1)

markSaleAsSynced(q, id) == [q EXCEPT ![id].status = "SINCRONIZADA"]

\* markSaleAsError with the status of markSaleAsSynced.
markSaleAsErrorSynced(q, id) ==
    [q EXCEPT ![id].status = "SINCRONIZADA", ![id].tentativas = @ + 1]

markSaleAsError(q, id) ==
    [q EXCEPT ![id].status = "ERRO", ![id].tentativas = @ + 1]

-----------------------------------------------------------------------------
(* ProductService (remote-API variant) and PdvApiService *)

\* !item.codigo || !item.quantidade || !item.preco_unitario
ItemInvalid(item) ==
    item.codigo = "" \/ item.quantidade = 0 \/ item.preco_unitario = 0

\* PdvApiService.findProductByCode: the cache first; on a miss, while online,
\* GET /produtos/codigo/<codigo> (reach says whether that request succeeds).
FindProductByCode(rows, codigo, online, reach, srv) ==
    IF CacheFind(rows, codigo) # Null THEN CacheFind(rows, codigo)
    ELSE IF online /\ reach THEN CacheFind(srv, codigo)
    ELSE Null

\* The validation loop of ProductService.createSale: lines are checked one by
\* one, in order, each against the product as looked up.
RECURSIVE ValidateItems(_, _, _, _, _)
ValidateItems(items, rows, online, reach, srv) ==
    IF items = << >> THEN "valid"
    ELSE LET item == Head(items)
             produto == FindProductByCode(rows, item.codigo, online, reach, srv)
         IN  IF ItemInvalid(item) THEN "ValidationError"
             ELSE IF produto = Null THEN "NotFound"
             ELSE IF produto.estoque < item.quantidade THEN "InsufficientStock"
             ELSE ValidateItems(Tail(items), rows, online, reach, srv)

ValidateSale(items, rows, online, reach, srv) ==
    IF Len(items) = 0 THEN "ValidationError"
    ELSE ValidateItems(items, rows, online, reach, srv)

\* salePayload of PdvApiService.createSale.
SalePayload(items) ==
    [hasTotal |-> TRUE,
     subtotal |-> ReduceTotal(items),
     total    |-> ReduceTotal(items),
     items    |-> items]

\* The argument of createSale as the caller passed it: items only.
VendaData(items) ==
    [hasTotal |-> FALSE, subtotal |-> 0, total |-> 0, items |-> items]

\* The authority applies every POST /vendas it receives: the body names no
\* sale identifier it could recognise a repetition by.
Apply(auth, tag) == [auth EXCEPT !.applied[tag] = @ + 1]

Applied(outcome) == outcome \in {"ok", "ackLost"}

\* Enqueues with the validation moved inside the try block whose catch queues
\* the sale: a validation failure is then queued too.
EnqueuesOnAnyError(v, online, outcome) == v # "valid" \/ ~online \/ outcome # "ok"

\* cache.addPendingSale is reached by createSale: in its offline branch, or in
\* the catch of PdvApiService.createSale.  ProductService throws a validation
\* failure before it calls apiService.createSale.
Enqueues(v, online, outcome) == v = "valid" /\ (~online \/ outcome # "ok")

\* What ProductService.createSale throws for before any write.
Rejections == {"ValidationError", "NotFound", "InsufficientStock"}

NoOp == [op |-> "none", tag |-> 0, result |-> "none", items |-> << >>,
         before |-> {}, sincronizado |-> FALSE, total |-> 0, queued |-> 0,
         failed |-> 0, codigo |-> "", produto |-> Null]

-----------------------------------------------------------------------------
(* Actions of the remote-API variant *)

\* seedInitialData scaled down to one product: its stock, and the unit price
\* the terminal sells it at.
SeedEstoque == 3
SeedPreco == 3

NoCall == [pc |-> "idle", items |-> << >>, max_numero |-> 0, vendaId |-> 0, k |-> 0,
           result |-> "none"]

EmptyData == [estoque |-> SeedEstoque, seq |-> 0, vendas |-> {}, venda_items |-> {},
              sync_log |-> {}]

\* The statement-level run of createSale is not part of this variant.
TxnIdle ==
    /\ data = EmptyData
    /\ tx = [active |-> FALSE, snap |-> EmptyData]
    /\ calls = [c \in 1..MaxCalls |-> NoCall]

\* The tables of the cache database a transaction covers.
CacheView(produtos, pendentes, config) ==
    [produtos |-> produtos, pendentes |-> pendentes, config |-> config]

NoSync == [pc |-> "idle", todo |-> << >>, produtos |-> << >>,
           old |-> CacheView({}, << >>, 0), ultimaSync |-> 0, lastSyncTime |-> 0]

NoCacheOp == [op |-> "none", result |-> "none", view |-> CacheView({}, << >>, 0)]

\* The statement-level run of LocalCacheService is not part of this variant.
CacheIdle ==
    /\ cacheTx = [active |-> FALSE, snap |-> CacheView({}, << >>, 0)]
    /\ syncCall = NoSync
    /\ cacheLast = NoCacheOp

NoRun == [pc |-> "idle", todo |-> << >>, list |-> << >>, sent |-> << >>]

\* The push of the pending queue is not run on its own in this variant.
PushIdle ==
    /\ created_at = << >>
    /\ pushRuns = [r \in 1..MaxRuns |-> NoRun]
    /\ acked = {}

NoRequest == [pc |-> "idle", request |-> "none", retryCount |-> 0,
              result |-> "none", sent |-> 0, received |-> 0]

\* No request of HttpApiService is followed on its own in this variant.
HttpIdle == http = NoRequest

NoNetOp == [op |-> "none", result |-> "none", store |-> "none", sincronizado |-> FALSE]

NetOp(op, result) == [NoNetOp EXCEPT !.op = op, !.result = result]

\* The shared-database service is not part of this variant.
NetIdle ==
    /\ netPhase = "constructed"
    /\ net = TRUE
    /\ handles = << >>
    /\ db = 0
    /\ isOnline = TRUE
    /\ isOfflineMode = FALSE
    /\ reconnectionTimer = FALSE
    /\ syncTimer = FALSE
    /\ tasks = << >>
    /\ stores = [primary |-> [exists |-> TRUE, schema |-> TRUE, vendas |-> {}, sync_log |-> {}],
                 backup  |-> [exists |-> FALSE, schema |-> FALSE, vendas |-> {}, sync_log |-> {}]]
    /\ nSales = 0
    /\ netLast = NoNetOp

IdleRun == [pc |-> "idle", todo |-> << >>, success |-> FALSE, failed |-> 0]

InitApi ==
    /\ PushIdle
    /\ HttpIdle
    /\ NetIdle
    /\ TxnIdle
    /\ CacheIdle
    /\ phase = "constructed"
    /\ pdvIsOnline = TRUE
    /\ cache_produtos = {}
    /\ vendas_pendentes = << >>
    /\ lastSyncTime = 0
    /\ cache_config = 0
    /\ clock = 1
    /\ authority \in [catalog : CatalogResponses, applied : {[t \in 1..MaxSales |-> 0]}]
    /\ nCreated = 0
    /\ syncRun = IdleRun
    /\ lastOp = NoOp

\* PdvApiService.syncProducts(force): the part that changes the state.
\* got = TRUE when GET /produtos/sync answered with success and data.
SyncProductsEffect(got) ==
    LET r == SyncProdutos(cache_produtos, authority.catalog)
    IN  IF got /\ r.ok
        THEN /\ cache_produtos' = r.rows
             /\ lastSyncTime' = clock
             /\ cache_config' = clock
             /\ pdvIsOnline' = TRUE
        ELSE /\ pdvIsOnline' = FALSE
             /\ UNCHANGED <<cache_produtos, lastSyncTime, cache_config>>

\* PdvApiService.initialize: cache.initialize() then syncProducts().
Initialize ==
    /\ UNCHANGED <<pushVars, httpVars, netVars, txnVars, cacheVars>>
    /\ phase = "constructed"
    /\ phase' = "ready"
    /\ \E got \in BOOLEAN : SyncProductsEffect(got)
    /\ lastOp' = NoOp
    /\ UNCHANGED <<vendas_pendentes, clock, authority, nCreated, syncRun>>

\* ProductService.createSale(vendaData) with PdvApiService.createSale inside.
CreateSale(items, reach, outcome) ==
    /\ UNCHANGED <<pushVars, httpVars, netVars, txnVars, cacheVars>>
    /\ phase = "ready"
    /\ nCreated < MaxSales
    /\ LET tag == nCreated + 1
           v   == ValidateSale(items, cache_produtos, pdvIsOnline, reach,
                               {authority.catalog[i] : i \in 1..Len(authority.catalog)})
           op  == [NoOp EXCEPT !.op = "createSale", !.tag = tag, !.items = items,
                               !.before = cache_produtos]
       IN  /\ nCreated' = tag
           /\ vendas_pendentes' =
                  IF Enqueues(v, pdvIsOnline, outcome)
                  THEN addPendingSale(vendas_pendentes, tag,
                                      IF pdvIsOnline THEN VendaData(items)
                                      ELSE SalePayload(items))
                  ELSE vendas_pendentes
           /\ IF v # "valid"
              THEN \* rejected by ProductService before apiService.createSale
                   /\ lastOp' = [op EXCEPT !.result = v]
                   /\ UNCHANGED authority
              ELSE IF pdvIsOnline
              THEN \* httpApi.post('/vendas', salePayload)
                   /\ authority' = IF Applied(outcome) THEN Apply(authority, tag)
                                   ELSE authority
                   /\ IF outcome = "ok"
                      THEN lastOp' = [op EXCEPT !.result = "ok",
                                                !.sincronizado = TRUE,
                                                !.total = SalePayload(items).total]
                      ELSE \* catch: cache.addPendingSale(vendaData); throw error
                           lastOp' = [op EXCEPT !.result = "ApiError",
                                                !.queued = Len(vendas_pendentes) + 1]
              ELSE \* offline: cache.addPendingSale(salePayload); return fakeVenda
                   /\ lastOp' = [op EXCEPT !.result = "ok",
                                           !.sincronizado = FALSE,
                                           !.total = SalePayload(items).total,
                                           !.queued = Len(vendas_pendentes) + 1]
                   /\ UNCHANGED authority
    /\ UNCHANGED <<phase, pdvIsOnline, cache_produtos, lastSyncTime, cache_config,
                   clock, syncRun>>

\* Codes the renderer looks up.
FindCodes == {"A", "B"}

\* ProductService.findByCode(codigo) with PdvApiService.findProductByCode inside.
FindProduct(codigo, reach) ==
    /\ UNCHANGED <<pushVars, httpVars, netVars, txnVars, cacheVars>>
    /\ phase = "ready"
    /\ LET produto == FindProductByCode(cache_produtos, codigo, pdvIsOnline, reach,
                           {authority.catalog[i] : i \in 1..Len(authority.catalog)})
       IN  lastOp' = [NoOp EXCEPT !.op = "findProduct", !.codigo = codigo,
                                  !.produto = produto,
                                  !.result = IF produto = Null THEN "NotFound" ELSE "ok"]
    /\ UNCHANGED <<phase, pdvIsOnline, cache_produtos, vendas_pendentes, lastSyncTime,
                   cache_config, clock, authority, nCreated, syncRun>>

\* forceSync, first half: syncProducts(true).
ForceSyncProducts ==
    /\ UNCHANGED <<pushVars, httpVars, netVars, txnVars, cacheVars>>
    /\ phase = "ready"
    /\ syncRun.pc = "idle"
    /\ \E got \in BOOLEAN :
          /\ SyncProductsEffect(got)
          /\ syncRun' = [pc |-> "pending", todo |-> << >>,
                         success |-> got /\ SyncProdutos(cache_produtos, authority.catalog).ok,
                         failed |-> 0]
    /\ lastOp' = NoOp
    /\ UNCHANGED <<phase, vendas_pendentes, clock, authority, nCreated>>

\* syncPendingSales: pendingSales = await cache.getPendingSales()
GetPendingSales ==
    /\ UNCHANGED <<pushVars, httpVars, netVars, txnVars, cacheVars>>
    /\ syncRun.pc = "pending"
    /\ syncRun' = [syncRun EXCEPT !.pc = "push", !.todo = getPendingSales(vendas_pendentes)]
    /\ lastOp' = NoOp
    /\ UNCHANGED <<phase, pdvIsOnline, cache_produtos, vendas_pendentes, lastSyncTime,
                   cache_config, clock, authority, nCreated>>

\* One turn of the for loop of syncPendingSales.
PushOne(outcome) ==
    /\ UNCHANGED <<pushVars, httpVars, netVars, txnVars, cacheVars>>
    /\ syncRun.pc = "push"
    /\ syncRun.todo # << >>
    /\ LET id == Head(syncRun.todo)
           tag == vendas_pendentes[id].tag
       IN  /\ authority' = IF Applied(outcome) THEN Apply(authority, tag) ELSE authority
           /\ vendas_pendentes' = IF outcome = "ok"
                                  THEN markSaleAsSynced(vendas_pendentes, id)
                                  ELSE markSaleAsError(vendas_pendentes, id)
           /\ lastOp' = NoOp
    /\ syncRun' = [syncRun EXCEPT !.todo = Tail(@),
                                  !.failed = IF outcome = "ok" THEN @ ELSE @ + 1]
    /\ UNCHANGED <<phase, pdvIsOnline, cache_produtos, lastSyncTime, cache_config,
                   clock, nCreated>>

\* The loop is over: forceSync returns success.
ForceSyncReturn ==
    /\ UNCHANGED <<pushVars, httpVars, netVars, txnVars, cacheVars>>
    /\ syncRun.pc = "push"
    /\ syncRun.todo = << >>
    /\ syncRun' = IdleRun
    /\ lastOp' = [NoOp EXCEPT !.op = "forceSync",
                              !.result = IF syncRun.success THEN "true" ELSE "false",
                              !.failed = syncRun.failed]
    /\ UNCHANGED <<phase, pdvIsOnline, cache_produtos, vendas_pendentes, lastSyncTime,
                   cache_config, clock, authority, nCreated>>

\* Environment: the authority's catalog changes.
AuthorityChange ==
    /\ UNCHANGED <<pushVars, httpVars, netVars, txnVars, cacheVars>>
    /\ \E c \in CatalogResponses :
          /\ c # authority.catalog
          /\ authority' = [authority EXCEPT !.catalog = c]
    /\ lastOp' = NoOp
    /\ UNCHANGED <<phase, pdvIsOnline, cache_produtos, vendas_pendentes, lastSyncTime,
                   cache_config, clock, nCreated, syncRun>>

\* Environment: time passes.
Tick ==
    /\ UNCHANGED <<pushVars, httpVars, netVars, txnVars, cacheVars>>
    /\ clock < MaxClock
    /\ clock' = clock + 1
    /\ lastOp' = NoOp
    /\ UNCHANGED <<phase, pdvIsOnline, cache_produtos, vendas_pendentes, lastSyncTime,
                   cache_config, authority, nCreated, syncRun>>

NextApi ==
    \/ Initialize
    \/ \E items \in SaleInputs, reach \in BOOLEAN, outcome \in PostOutcomes :
          CreateSale(items, reach, outcome)
    \/ \E codigo \in FindCodes, reach \in BOOLEAN : FindProduct(codigo, reach)
    \/ ForceSyncProducts
    \/ GetPendingSales
    \/ \E outcome \in PostOutcomes : PushOne(outcome)
    \/ ForceSyncReturn
    \/ AuthorityChange
    \/ Tick

SpecApi == InitApi /\ [][NextApi]_vars

-----------------------------------------------------------------------------
(* NetworkDatabaseService: handles, stores and callbacks                   *)
(* The service is modelled in the client role with the network enabled,    *)
(* the configuration in which every timer and the replay are active.       *)

\* open({filename, driver}): a new handle on the file.
OpenHandle(hs, store) == Append(hs, [store |-> store, open |-> TRUE])

\* db.close()
CloseHandle(hs, h) == [hs EXCEPT ![h].open = FALSE]

\* A statement on handle h runs: the handle is open (sqlite3 answers
\* SQLITE_MISUSE on a closed one) and its file can be reached.
Usable(h) ==
    /\ h # 0
    /\ handles[h].open
    /\ handles[h].store = "primary" => net

\* One async callback in flight: which one, where it is, its local backupDb.
Task(kind, pc) == [kind |-> kind, pc |-> pc, backupDb |-> 0]

RemoveAt(s, i) == SubSeq(s, 1, i - 1) \o SubSeq(s, i + 1, Len(s))

\* The callback goes on to its next await.
Advance(i, pc, backupDb) ==
    /\ tasks' = [tasks EXCEPT ![i].pc = pc, ![i].backupDb = backupDb]
    /\ netLast' = NoNetOp
    /\ UNCHANGED <<netPhase, reconnectionTimer, syncTimer>>

\* An exception leaves connectToPrimary/connectToBackup: the timer callbacks
\* and switchToBackup log it, forceSyncToNetwork returns false, initialize
\* rejects.  netLast.store records which of the two connects threw.
Thrown(i) ==
    /\ tasks' = RemoveAt(tasks, i)
    /\ netPhase' = IF tasks[i].kind = "init" THEN "failed" ELSE netPhase
    /\ netLast' = [NetOp(tasks[i].kind, "error") EXCEPT
                       !.store = IF tasks[i].pc \in {"cp1", "cp2a", "cp2b"}
                                 THEN "primary" ELSE "backup"]
    /\ UNCHANGED <<reconnectionTimer, syncTimer>>

\* connectToPrimary returned to its caller: the reconnection callback clears
\* its timer, forceSyncToNetwork returns true, initialize starts the sync timer.
AfterPrimary(i, replayed) ==
    /\ tasks' = RemoveAt(tasks, i)
    /\ reconnectionTimer' = IF tasks[i].kind = "reconnect" THEN FALSE ELSE reconnectionTimer
    /\ syncTimer' = IF tasks[i].kind = "init" THEN TRUE ELSE syncTimer
    /\ netPhase' = IF tasks[i].kind = "init" THEN "ready" ELSE netPhase
    /\ netLast' = NetOp(tasks[i].kind, IF replayed THEN "replayed" ELSE "connected")

\* connectToBackup returned to its caller: switchToBackup and initialize call
\* startReconnectionAttempts, initialize also starts the sync timer.
AfterBackup(i) ==
    /\ tasks' = RemoveAt(tasks, i)
    /\ reconnectionTimer' = TRUE
    /\ syncTimer' = IF tasks[i].kind = "init" THEN TRUE ELSE syncTimer
    /\ netPhase' = IF tasks[i].kind = "init" THEN "ready" ELSE netPhase
    /\ netLast' = NetOp(tasks[i].kind, "backup")

\* setOfflineMode that only logs the change.
setOfflineModeLogOnly(offline) == isOfflineMode

\* NetworkConfig.setOfflineMode(offline): this.config.isOfflineMode = offline
setOfflineMode(offline) == offline

\* createInitialBackup: when the backup file is missing and the primary file
\* can be seen, the primary file is copied.
createInitialBackup(st) ==
    IF ~st.backup.exists /\ net /\ st.primary.exists
    THEN [st EXCEPT !.backup = st.primary]
    ELSE st

\* The SELECT of syncFromBackupToPrimary:
\*   SELECT * FROM vendas WHERE id NOT IN
\*     (SELECT id FROM vendas WHERE id IN (SELECT id FROM vendas))
vendasPendentes(vendas) ==
    LET ids == {v.tag : v \in vendas}
        inner == {v.tag : v \in {w \in vendas : w.tag \in ids}}
    IN  {v \in vendas : v.tag \notin inner}

\* The for loop of syncFromBackupToPrimary over the selected sales: it logs
\* each sale and writes nothing.
ReplayInto(primaryVendas, pendentes) == primaryVendas

-----------------------------------------------------------------------------
(* Actions of the shared-database variant: mode controller *)

\* The remote-API service is not part of this variant.
ApiIdle ==
    /\ phase = "constructed"
    /\ pdvIsOnline = TRUE
    /\ cache_produtos = {}
    /\ vendas_pendentes = << >>
    /\ lastSyncTime = 0
    /\ cache_config = 0
    /\ clock = 1
    /\ authority = [catalog |-> << >>, applied |-> [t \in 1..MaxSales |-> 0]]
    /\ nCreated = 0
    /\ syncRun = IdleRun
    /\ lastOp = NoOp

InitNet ==
    /\ PushIdle
    /\ HttpIdle
    /\ ApiIdle
    /\ TxnIdle
    /\ CacheIdle
    /\ netPhase = "constructed"
    /\ net \in BOOLEAN
    /\ handles = << >>
    /\ db = 0
    /\ isOnline = TRUE
    /\ isOfflineMode = FALSE
    /\ reconnectionTimer = FALSE
    /\ syncTimer = FALSE
    /\ tasks = << >>
    /\ stores \in
         { [primary |-> [exists |-> TRUE, schema |-> TRUE, vendas |-> {}, sync_log |-> {}],
            backup  |-> [exists |-> b, schema |-> b, vendas |-> {}, sync_log |-> {}]]
           : b \in BOOLEAN }
    /\ nSales = 0
    /\ netLast = NoNetOp

\* initialize(): validateNetworkAccess, then connectToPrimary or connectToBackup.
NetInitialize ==
    /\ netPhase = "constructed"
    /\ netPhase' = "initializing"
    /\ tasks' = << Task("init", IF net THEN "cp1" ELSE "cb1") >>
    /\ netLast' = NoNetOp
    /\ UNCHANGED <<net, handles, db, isOnline, isOfflineMode, reconnectionTimer,
                   syncTimer, stores, nSales>>
    /\ UNCHANGED <<pushVars, httpVars, apiVars, txnVars, cacheVars>>

\* connectToPrimary: this.db = await open(primaryDbPath)
OpenPrimary(i) ==
    /\ tasks[i].pc = "cp1"
    /\ IF net
       THEN /\ Len(handles) < MaxHandles
            /\ handles' = OpenHandle(handles, "primary")
            /\ db' = Len(handles) + 1
            /\ stores' = [stores EXCEPT !.primary.exists = TRUE]
            /\ Advance(i, "cp2a", 0)
       ELSE /\ Thrown(i)
            /\ UNCHANGED <<handles, db, stores>>
    /\ UNCHANGED <<net, isOnline, isOfflineMode, nSales>>
    /\ UNCHANGED <<pushVars, httpVars, apiVars, txnVars, cacheVars>>

\* connectToPrimary: applyNetworkOptimizations, createOptimizedSchema,
\* createOptimalIndexes on this.db as it is now.
SetupPrimary(i) ==
    /\ tasks[i].pc = "cp2a"
    /\ IF Usable(db)
       THEN /\ stores' = [stores EXCEPT ![handles[db].store].schema = TRUE]
            /\ Advance(i, "cp2b", 0)
       ELSE /\ Thrown(i)
            /\ UNCHANGED stores
    /\ UNCHANGED <<net, handles, db, isOnline, isOfflineMode, nSales>>
    /\ UNCHANGED <<pushVars, httpVars, apiVars, txnVars, cacheVars>>

\* connectToPrimary: seedInitialData, then isOnline = true,
\* setOfflineMode(false), and the entry test of syncFromBackupToPrimary.
OnlinePrimary(i) ==
    /\ tasks[i].pc = "cp2b"
    /\ IF Usable(db)
       THEN /\ isOnline' = TRUE
            /\ isOfflineMode' = setOfflineMode(FALSE)
            /\ Advance(i, "s1", 0)
       ELSE /\ Thrown(i)
            /\ UNCHANGED <<isOnline, isOfflineMode>>
    /\ UNCHANGED <<net, handles, db, stores, nSales>>
    /\ UNCHANGED <<pushVars, httpVars, apiVars, txnVars, cacheVars>>

\* syncFromBackupToPrimary: backupDb = await open(backupDbPath).  A failure is
\* caught inside and connectToPrimary returns.
OpenBackupDb(i, ok) ==
    /\ tasks[i].pc = "s1"
    /\ IF ok
       THEN /\ Len(handles) < MaxHandles
            /\ handles' = OpenHandle(handles, "backup")
            /\ stores' = [stores EXCEPT !.backup.exists = TRUE]
            /\ Advance(i, "s2", Len(handles) + 1)
       ELSE /\ AfterPrimary(i, FALSE)
            /\ UNCHANGED <<handles, stores>>
    /\ UNCHANGED <<net, db, isOnline, isOfflineMode, nSales>>
    /\ UNCHANGED <<pushVars, httpVars, apiVars, txnVars, cacheVars>>

\* syncFromBackupToPrimary: the SELECT and the loop.  Without a vendas table
\* the SELECT throws; the catch logs and backupDb.close() is never reached.
QueryBackupDb(i) ==
    /\ tasks[i].pc = "s2"
    /\ IF stores.backup.schema
       THEN /\ stores' = [stores EXCEPT !.primary.vendas =
                             ReplayInto(@, vendasPendentes(stores.backup.vendas))]
            /\ Advance(i, "s3", tasks[i].backupDb)
       ELSE /\ AfterPrimary(i, FALSE)
            /\ UNCHANGED stores
    /\ UNCHANGED <<net, handles, db, isOnline, isOfflineMode, nSales>>
    /\ UNCHANGED <<pushVars, httpVars, apiVars, txnVars, cacheVars>>

\* syncFromBackupToPrimary: await backupDb.close(), and connectToPrimary returns.
CloseBackupDb(i) ==
    /\ tasks[i].pc = "s3"
    /\ handles' = CloseHandle(handles, tasks[i].backupDb)
    /\ AfterPrimary(i, TRUE)
    /\ UNCHANGED <<net, db, isOnline, isOfflineMode, stores, nSales>>
    /\ UNCHANGED <<pushVars, httpVars, apiVars, txnVars, cacheVars>>

\* connectToBackup: createInitialBackup, this.db = await open(backupDbPath)
OpenBackup(i, ok) ==
    /\ tasks[i].pc = "cb1"
    /\ IF ok
       THEN /\ Len(handles) < MaxHandles
            /\ handles' = OpenHandle(handles, "backup")
            /\ db' = Len(handles) + 1
            /\ stores' = [createInitialBackup(stores) EXCEPT !.backup.exists = TRUE]
            /\ Advance(i, "cb2a", 0)
       ELSE /\ Thrown(i)
            /\ stores' = createInitialBackup(stores)
            /\ UNCHANGED <<handles, db>>
    /\ UNCHANGED <<net, isOnline, isOfflineMode, nSales>>
    /\ UNCHANGED <<pushVars, httpVars, apiVars, txnVars, cacheVars>>

\* connectToBackup: applyOptimalSettings, createOptimizedSchema,
\* createOptimalIndexes on this.db as it is now.
SetupBackup(i) ==
    /\ tasks[i].pc = "cb2a"
    /\ IF Usable(db)
       THEN /\ stores' = [stores EXCEPT ![handles[db].store].schema = TRUE]
            /\ Advance(i, "cb2b", 0)
       ELSE /\ Thrown(i)
            /\ UNCHANGED stores
    /\ UNCHANGED <<net, handles, db, isOnline, isOfflineMode, nSales>>
    /\ UNCHANGED <<pushVars, httpVars, apiVars, txnVars, cacheVars>>

\* connectToBackup: seedInitialData, then isOnline = false, setOfflineMode(true).
OfflineBackup(i) ==
    /\ tasks[i].pc = "cb2b"
    /\ IF Usable(db)
       THEN /\ isOnline' = FALSE
            /\ isOfflineMode' = setOfflineMode(TRUE)
            /\ AfterBackup(i)
       ELSE /\ Thrown(i)
            /\ UNCHANGED <<isOnline, isOfflineMode>>
    /\ UNCHANGED <<net, handles, db, stores, nSales>>
    /\ UNCHANGED <<pushVars, httpVars, apiVars, txnVars, cacheVars>>

\* The callback of startReconnectionAttempts, up to its first I/O:
\* validateNetworkAccess, then this.db.close() when this.db is set.  The timer
\* ticks for as long as it is armed, also after close().
ReconnectTick ==
    /\ netPhase \in {"ready", "closed"}
    /\ reconnectionTimer
    /\ Len(tasks) < MaxTasks
    /\ IF ~net
       THEN UNCHANGED <<handles, tasks, netLast>>
       ELSE IF db = 0 \/ handles[db].open
       THEN /\ handles' = IF db = 0 THEN handles ELSE CloseHandle(handles, db)
            /\ tasks' = Append(tasks, Task("reconnect", "cp1"))
            /\ netLast' = NoNetOp
       ELSE /\ netLast' = NetOp("reconnect", "error")
            /\ UNCHANGED <<handles, tasks>>
    /\ UNCHANGED <<netPhase, net, db, isOnline, isOfflineMode, reconnectionTimer,
                   syncTimer, stores, nSales>>
    /\ UNCHANGED <<pushVars, httpVars, apiVars, txnVars, cacheVars>>

\* The callback of startSyncTimer, up to the close of switchToBackup:
\* validateNetworkAccess, createManualBackup, this.db.close().
ProbeTick ==
    /\ netPhase = "ready"
    /\ syncTimer
    /\ Len(tasks) < MaxTasks
    /\ IF ~isOnline \/ net
       THEN UNCHANGED <<handles, tasks, netLast>>
       ELSE IF handles[db].open
       THEN /\ handles' = CloseHandle(handles, db)
            /\ tasks' = Append(tasks, Task("probe", "cb1"))
            /\ netLast' = NoNetOp
       ELSE /\ netLast' = NetOp("probe", "error")
            /\ UNCHANGED <<handles, tasks>>
    /\ UNCHANGED <<netPhase, net, db, isOnline, isOfflineMode, reconnectionTimer,
                   syncTimer, stores, nSales>>
    /\ UNCHANGED <<pushVars, httpVars, apiVars, txnVars, cacheVars>>

\* forceSyncToNetwork, up to its first I/O.
ForceSyncToNetwork ==
    /\ netPhase = "ready"
    /\ Len(tasks) < MaxTasks
    /\ IF isOnline
       THEN /\ netLast' = NetOp("force", "true")
            /\ UNCHANGED <<handles, tasks>>
       ELSE IF ~net
       THEN /\ netLast' = NetOp("force", "false")
            /\ UNCHANGED <<handles, tasks>>
       ELSE IF handles[db].open
       THEN /\ handles' = CloseHandle(handles, db)
            /\ tasks' = Append(tasks, Task("force", "cp1"))
            /\ netLast' = NoNetOp
       ELSE /\ netLast' = NetOp("force", "error")
            /\ UNCHANGED <<handles, tasks>>
    /\ UNCHANGED <<netPhase, net, db, isOnline, isOfflineMode, reconnectionTimer,
                   syncTimer, stores, nSales>>
    /\ UNCHANGED <<pushVars, httpVars, apiVars, txnVars, cacheVars>>

\* NetworkDatabaseService.createSale on this.db: the sale row carries
\* sincronizado = this.isOnline, and a sync_log row is written while offline.
NetCreateSale ==
    /\ netPhase = "ready"
    /\ nSales < MaxSales
    /\ nSales' = nSales + 1
    /\ IF Usable(db) /\ stores[handles[db].store].schema
       THEN LET st == handles[db].store
            IN  /\ stores' = [stores EXCEPT
                      ![st].vendas = @ \cup {[tag |-> nSales + 1, sincronizado |-> isOnline]},
                      ![st].sync_log = IF isOnline THEN @ ELSE @ \cup {nSales + 1}]
                /\ netLast' = [op |-> "createSale", result |-> "ok", store |-> st,
                               sincronizado |-> isOnline]
       ELSE /\ netLast' = NetOp("createSale", "error")
            /\ UNCHANGED stores
    /\ UNCHANGED <<netPhase, net, handles, db, isOnline, isOfflineMode, reconnectionTimer,
                   syncTimer, tasks>>
    /\ UNCHANGED <<pushVars, httpVars, apiVars, txnVars, cacheVars>>

\* close(): both timers are cleared, then PRAGMA optimize and close on this.db
\* and this.db = null; a failure of either statement is caught and logged, and
\* this.db stays as it was.  Callbacks in flight go on.
NetClose ==
    /\ netPhase = "ready"
    /\ netPhase' = "closed"
    /\ reconnectionTimer' = FALSE
    /\ syncTimer' = FALSE
    /\ IF Usable(db)
       THEN /\ handles' = CloseHandle(handles, db)
            /\ db' = 0
       ELSE UNCHANGED <<handles, db>>
    /\ netLast' = NetOp("close", "closed")
    /\ UNCHANGED <<net, isOnline, isOfflineMode, tasks, stores, nSales>>
    /\ UNCHANGED <<pushVars, httpVars, apiVars, txnVars, cacheVars>>

\* Environment: the network share comes and goes.
NetChange ==
    /\ net' = ~net
    /\ netLast' = NoNetOp
    /\ UNCHANGED <<netPhase, handles, db, isOnline, isOfflineMode, reconnectionTimer,
                   syncTimer, tasks, stores, nSales>>
    /\ UNCHANGED <<pushVars, httpVars, apiVars, txnVars, cacheVars>>

NextNet ==
    \/ NetInitialize
    \/ \E i \in 1..Len(tasks) : OpenPrimary(i)
    \/ \E i \in 1..Len(tasks) : SetupPrimary(i)
    \/ \E i \in 1..Len(tasks) : OnlinePrimary(i)
    \/ \E i \in 1..Len(tasks), ok \in BOOLEAN : OpenBackupDb(i, ok)
    \/ \E i \in 1..Len(tasks) : QueryBackupDb(i)
    \/ \E i \in 1..Len(tasks) : CloseBackupDb(i)
    \/ \E i \in 1..Len(tasks), ok \in BOOLEAN : OpenBackup(i, ok)
    \/ \E i \in 1..Len(tasks) : SetupBackup(i)
    \/ \E i \in 1..Len(tasks) : OfflineBackup(i)
    \/ ReconnectTick
    \/ ProbeTick
    \/ ForceSyncToNetwork
    \/ NetCreateSale
    \/ NetClose
    \/ NetChange

SpecNet == InitNet /\ [][NextNet]_vars

-----------------------------------------------------------------------------
(* NetworkDatabaseService.createSale, statement by statement.               *)
(* All calls share the one connection this.db, so they share its            *)
(* transaction: BEGIN, COMMIT and ROLLBACK act on whatever transaction the  *)
(* connection has open.  A failing statement is undone alone (SQLite's      *)
(* default ABORT) and leaves the transaction as it was.                     *)

\* Quantities of the lines of the sales the renderer asks for, all of the
\* seeded product at its price.
TxInputs == { << 2 >>, << 1, 1 >>, << 2, 2 >> }

\* What other connections see: the last committed state.
Committed == IF tx.active THEN tx.snap ELSE data

\* items.reduce((sum, item) => sum + item.quantidade * item.preco_unitario, 0)
Subtotal(items) == SumSeq([i \in 1..Len(items) |-> items[i] * SeedPreco])

\* ProductService.createSale (shared-database variant): every line is checked
\* against the stock findByCode reads.
RECURSIVE ValidateLines(_, _)
ValidateLines(items, estoque) ==
    IF items = << >> THEN "valid"
    ELSE IF Head(items) = 0 THEN "ValidationError"
    ELSE IF estoque < Head(items) THEN "InsufficientStock"
    ELSE ValidateLines(Tail(items), estoque)

\* The call goes on to its next statement.
Goto(c, pc) == calls' = [calls EXCEPT ![c].pc = pc]

\* The call is over with this result.
Return(c, result) == calls' = [calls EXCEPT ![c].pc = "done", ![c].result = result]

\* ProductService.createSale up to the call of db.createSale.
TxStart(c, items) ==
    /\ calls[c].pc = "idle"
    /\ LET v == IF Len(items) = 0 THEN "ValidationError"
                ELSE ValidateLines(items, data.estoque)
       IN  calls' = [calls EXCEPT ![c].items = items,
                                  ![c].pc = IF v = "valid" THEN "begin" ELSE "done",
                                  ![c].result = IF v = "valid" THEN "none" ELSE v]
    /\ UNCHANGED <<data, tx>>
    /\ UNCHANGED <<pushVars, httpVars, apiVars, netVars, cacheVars>>

\* await db.exec('BEGIN TRANSACTION;')
TxBegin(c) ==
    /\ calls[c].pc = "begin"
    /\ IF tx.active
       THEN \* cannot start a transaction within a transaction
            /\ Goto(c, "rollback")
            /\ UNCHANGED tx
       ELSE /\ tx' = [active |-> TRUE, snap |-> data]
            /\ Goto(c, "max")
    /\ UNCHANGED data
    /\ UNCHANGED <<pushVars, httpVars, apiVars, netVars, cacheVars>>

\* SELECT COALESCE(MAX(numero_venda), 0) + 1 as max_numero FROM vendas
MaxNumero(vendas) ==
    IF vendas = {} THEN 1
    ELSE (CHOOSE n \in {v.numero_venda : v \in vendas} :
              \A v \in vendas : v.numero_venda <= n) + 1

TxSelectMax(c) ==
    /\ calls[c].pc = "max"
    /\ calls' = [calls EXCEPT ![c].max_numero = MaxNumero(data.vendas), ![c].pc = "header"]
    /\ UNCHANGED <<data, tx>>
    /\ UNCHANGED <<pushVars, httpVars, apiVars, netVars, cacheVars>>

\* INSERT INTO vendas (numero_venda, subtotal, total, caixa_id, sincronizado);
\* numero_venda is UNIQUE, id is AUTOINCREMENT.
TxInsertVenda(c) ==
    /\ calls[c].pc = "header"
    /\ IF \E v \in data.vendas : v.numero_venda = calls[c].max_numero
       THEN /\ Goto(c, "rollback")
            /\ UNCHANGED data
       ELSE /\ data' = [data EXCEPT
                  !.seq = @ + 1,
                  !.vendas = @ \cup {[id |-> data.seq + 1,
                                      numero_venda |-> calls[c].max_numero,
                                      total |-> Subtotal(calls[c].items),
                                      sincronizado |-> isOnline,
                                      call |-> c]}]
            /\ calls' = [calls EXCEPT ![c].vendaId = data.seq + 1, ![c].k = 1,
                                      ![c].pc = "item"]
    /\ UNCHANGED tx
    /\ UNCHANGED <<pushVars, httpVars, apiVars, netVars, cacheVars>>

\* INSERT INTO venda_items (...) with the trigger venda_item_estoque:
\* venda_id REFERENCES vendas(id) with foreign_keys = ON, and the trigger's
\* UPDATE fails on CHECK(estoque >= 0).
TxInsertItem(c) ==
    /\ calls[c].pc = "item"
    /\ LET q == calls[c].items[calls[c].k]
           last == calls[c].k = Len(calls[c].items)
       IN  IF \/ ~\E v \in data.vendas : v.id = calls[c].vendaId
              \/ data.estoque - q < 0
           THEN /\ Goto(c, "rollback")
                /\ UNCHANGED data
           ELSE /\ data' = [data EXCEPT
                      !.estoque = @ - q,
                      !.venda_items = @ \cup {[venda_id |-> calls[c].vendaId,
                                               line |-> calls[c].k,
                                               quantidade |-> q,
                                               subtotal |-> q * SeedPreco,
                                               call |-> c]}]
                /\ calls' = [calls EXCEPT ![c].k = @ + 1,
                                          ![c].pc = IF ~last THEN "item"
                                                    ELSE IF ~isOnline THEN "log"
                                                    ELSE "commit"]
    /\ UNCHANGED tx
    /\ UNCHANGED <<pushVars, httpVars, apiVars, netVars, cacheVars>>

\* if (!this.isOnline) await this.logSyncOperation('vendas', vendaId, 'INSERT', ...)
\* logSyncOperation catches a failure of its INSERT and logs it to the console.
TxLogSync(c, ok) ==
    /\ calls[c].pc = "log"
    /\ data' = IF ok THEN [data EXCEPT !.sync_log = @ \cup {calls[c].vendaId}] ELSE data
    /\ Goto(c, "commit")
    /\ UNCHANGED tx
    /\ UNCHANGED <<pushVars, httpVars, apiVars, netVars, cacheVars>>

\* await db.exec('COMMIT;') and the return of the sale.
TxCommit(c) ==
    /\ calls[c].pc = "commit"
    /\ IF tx.active
       THEN /\ tx' = [tx EXCEPT !.active = FALSE]
            /\ Return(c, "ok")
       ELSE \* cannot commit - no transaction is active
            /\ Goto(c, "rollback")
            /\ UNCHANGED tx
    /\ UNCHANGED data
    /\ UNCHANGED <<pushVars, httpVars, apiVars, netVars, cacheVars>>

\* catch (err) { await db.exec('ROLLBACK;'); throw err; }
TxRollback(c) ==
    /\ calls[c].pc = "rollback"
    /\ IF tx.active
       THEN /\ data' = tx.snap
            /\ tx' = [tx EXCEPT !.active = FALSE]
       ELSE \* cannot rollback - no transaction is active
            UNCHANGED <<data, tx>>
    /\ Return(c, "error")
    /\ UNCHANGED <<pushVars, httpVars, apiVars, netVars, cacheVars>>

\* The connection is open on the primary (ONLINE) or on the backup (OFFLINE)
\* and stays there for the run.
InitTxn ==
    /\ PushIdle
    /\ HttpIdle
    /\ ApiIdle
    /\ TxnIdle
    /\ CacheIdle
    /\ netPhase = "ready"
    /\ net \in BOOLEAN
    /\ isOnline = net
    /\ isOfflineMode = ~net
    /\ handles = << [store |-> IF net THEN "primary" ELSE "backup", open |-> TRUE] >>
    /\ db = 1
    /\ reconnectionTimer = FALSE
    /\ syncTimer = FALSE
    /\ tasks = << >>
    /\ stores = [primary |-> [exists |-> TRUE, schema |-> TRUE, vendas |-> {}, sync_log |-> {}],
                 backup  |-> [exists |-> TRUE, schema |-> TRUE, vendas |-> {}, sync_log |-> {}]]
    /\ nSales = 0
    /\ netLast = NoNetOp

NextTxn ==
    \/ \E c \in 1..MaxCalls, items \in TxInputs : TxStart(c, items)
    \/ \E c \in 1..MaxCalls : TxBegin(c)
    \/ \E c \in 1..MaxCalls : TxSelectMax(c)
    \/ \E c \in 1..MaxCalls : TxInsertVenda(c)
    \/ \E c \in 1..MaxCalls : TxInsertItem(c)
    \/ \E c \in 1..MaxCalls, ok \in BOOLEAN : TxLogSync(c, ok)
    \/ \E c \in 1..MaxCalls : TxCommit(c)
    \/ \E c \in 1..MaxCalls : TxRollback(c)

SpecTxn == InitTxn /\ [][NextTxn]_vars

-----------------------------------------------------------------------------
(* LocalCacheService, statement by statement.                               *)
(* Every method runs its statements on the one connection this.db, so a     *)
(* statement issued while syncProdutos has its transaction open belongs to  *)
(* that transaction, and reads on the connection see its uncommitted rows.  *)

Here == CacheView(cache_produtos, vendas_pendentes, cache_config)

SyncGoto(pc) == syncCall' = [syncCall EXCEPT !.pc = pc]

\* syncProducts(force) asked the authority with ultimaSync = the last sync
\* time unless forced (0 = no parameter) and got produtos; then
\* syncProdutos(produtos): await this.db.exec('BEGIN TRANSACTION')
CacheSyncBegin(produtos, force) ==
    /\ syncCall.pc = "idle"
    /\ cacheTx' = [active |-> TRUE, snap |-> Here]
    /\ syncCall' = [pc |-> "delete", todo |-> produtos, produtos |-> produtos, old |-> Here,
                    ultimaSync |-> IF force THEN 0 ELSE lastSyncTime,
                    lastSyncTime |-> lastSyncTime]
    /\ cacheLast' = NoCacheOp
    /\ UNCHANGED apiVars
    /\ UNCHANGED <<pushVars, httpVars, netVars, txnVars>>

\* await this.db.run('DELETE FROM cache_produtos') and the prepare
CacheSyncDelete ==
    /\ syncCall.pc = "delete"
    /\ cache_produtos' = {}
    /\ SyncGoto("insert")
    /\ cacheLast' = NoCacheOp
    /\ UNCHANGED <<phase, pdvIsOnline, vendas_pendentes, lastSyncTime, cache_config, clock,
                   authority, nCreated, syncRun, lastOp>>
    /\ UNCHANGED <<pushVars, httpVars, netVars, txnVars, cacheTx>>

\* One turn of the loop: await stmt.run([...]); id is the PRIMARY KEY and
\* codigo is UNIQUE.
CacheSyncInsert ==
    /\ syncCall.pc = "insert"
    /\ syncCall.todo # << >>
    /\ LET p == Head(syncCall.todo)
       IN  IF \E r \in cache_produtos : r.id = p.id \/ r.codigo = p.codigo
           THEN /\ SyncGoto("rollback")
                /\ UNCHANGED cache_produtos
           ELSE /\ cache_produtos' = cache_produtos \cup {p}
                /\ syncCall' = [syncCall EXCEPT !.todo = Tail(@)]
    /\ cacheLast' = NoCacheOp
    /\ UNCHANGED <<phase, pdvIsOnline, vendas_pendentes, lastSyncTime, cache_config, clock,
                   authority, nCreated, syncRun, lastOp>>
    /\ UNCHANGED <<pushVars, httpVars, netVars, txnVars, cacheTx>>

\* await stmt.finalize(); await this.db.exec('COMMIT'); this.lastSyncTime = new Date()
CacheSyncCommit ==
    /\ syncCall.pc = "insert"
    /\ syncCall.todo = << >>
    /\ cacheTx' = [cacheTx EXCEPT !.active = FALSE]
    /\ lastSyncTime' = clock
    /\ SyncGoto("config")
    /\ cacheLast' = NoCacheOp
    /\ UNCHANGED <<phase, pdvIsOnline, cache_produtos, vendas_pendentes, cache_config, clock,
                   authority, nCreated, syncRun, lastOp>>
    /\ UNCHANGED <<pushVars, httpVars, netVars, txnVars>>

\* await this.updateSyncTime(): INSERT OR REPLACE INTO cache_config; the
\* write can fail (disk full, I/O error).
CacheSyncUpdateTime(ok) ==
    /\ syncCall.pc = "config"
    /\ IF ok
       THEN /\ cache_config' = lastSyncTime
            /\ SyncGoto("log")
       ELSE /\ SyncGoto("rollback")
            /\ UNCHANGED cache_config
    /\ cacheLast' = NoCacheOp
    /\ UNCHANGED <<phase, pdvIsOnline, cache_produtos, vendas_pendentes, lastSyncTime, clock,
                   authority, nCreated, syncRun, lastOp>>
    /\ UNCHANGED <<pushVars, httpVars, netVars, txnVars, cacheTx>>

\* await this.logSync('PRODUTOS', 'SUCCESS', ...) and the return.
CacheSyncLog(ok) ==
    /\ syncCall.pc = "log"
    /\ IF ok
       THEN /\ SyncGoto("idle")
            /\ cacheLast' = [NoCacheOp EXCEPT !.op = "syncProdutos", !.result = "ok"]
       ELSE /\ SyncGoto("rollback")
            /\ cacheLast' = NoCacheOp
    /\ UNCHANGED apiVars
    /\ UNCHANGED <<pushVars, httpVars, netVars, txnVars, cacheTx>>

\* catch: await this.db.exec('ROLLBACK'); logSync('PRODUTOS', 'ERROR'); throw.
\* Without a transaction ROLLBACK itself throws, and that error is the one
\* the caller gets.
CacheSyncRollback ==
    /\ syncCall.pc = "rollback"
    /\ IF cacheTx.active
       THEN /\ cache_produtos' = cacheTx.snap.produtos
            /\ vendas_pendentes' = cacheTx.snap.pendentes
            /\ cache_config' = cacheTx.snap.config
            /\ cacheTx' = [cacheTx EXCEPT !.active = FALSE]
       ELSE UNCHANGED <<cache_produtos, vendas_pendentes, cache_config, cacheTx>>
    /\ SyncGoto("idle")
    /\ cacheLast' = [NoCacheOp EXCEPT !.op = "syncProdutos", !.result = "error"]
    /\ UNCHANGED <<phase, pdvIsOnline, lastSyncTime, clock, authority, nCreated, syncRun,
                   lastOp>>
    /\ UNCHANGED <<pushVars, httpVars, netVars, txnVars>>

\* addPendingSale(vendaData): one INSERT, and the method returns.
CacheAddPendingSale(items) ==
    /\ nCreated < MaxSales
    /\ nCreated' = nCreated + 1
    /\ vendas_pendentes' = addPendingSale(vendas_pendentes, nCreated + 1, SalePayload(items))
    /\ cacheLast' = [NoCacheOp EXCEPT !.op = "addPendingSale", !.result = "ok"]
    /\ UNCHANGED <<phase, pdvIsOnline, cache_produtos, lastSyncTime, cache_config, clock,
                   authority, syncRun, lastOp>>
    /\ UNCHANGED <<pushVars, httpVars, netVars, txnVars, cacheTx, syncCall>>

\* A reader on the connection: findProductByCode / getAllProducts read
\* cache_produtos, getCacheStats reads cache_config.
CacheRead ==
    /\ cacheLast' = [NoCacheOp EXCEPT !.op = "read", !.result = "ok",
                                      !.view = CacheView(cache_produtos, << >>, cache_config)]
    /\ UNCHANGED apiVars
    /\ UNCHANGED <<pushVars, httpVars, netVars, txnVars, cacheTx, syncCall>>

\* Environment: time passes.
CacheTick ==
    /\ clock < MaxClock
    /\ clock' = clock + 1
    /\ cacheLast' = NoCacheOp
    /\ UNCHANGED <<phase, pdvIsOnline, cache_produtos, vendas_pendentes, lastSyncTime,
                   cache_config, authority, nCreated, syncRun, lastOp>>
    /\ UNCHANGED <<pushVars, httpVars, netVars, txnVars, cacheTx, syncCall>>

\* The cache after LocalCacheService.initialize() on a new file.
InitCache ==
    /\ PushIdle
    /\ HttpIdle
    /\ NetIdle
    /\ TxnIdle
    /\ CacheIdle
    /\ phase = "ready"
    /\ pdvIsOnline = TRUE
    /\ cache_produtos = {}
    /\ vendas_pendentes = << >>
    /\ lastSyncTime = 0
    /\ cache_config = 0
    /\ clock = 1
    /\ authority = [catalog |-> << >>, applied |-> [t \in 1..MaxSales |-> 0]]
    /\ nCreated = 0
    /\ syncRun = IdleRun
    /\ lastOp = NoOp

NextCache ==
    \/ \E produtos \in CatalogResponses, force \in BOOLEAN : CacheSyncBegin(produtos, force)
    \/ CacheSyncDelete
    \/ CacheSyncInsert
    \/ CacheSyncCommit
    \/ \E ok \in BOOLEAN : CacheSyncUpdateTime(ok)
    \/ \E ok \in BOOLEAN : CacheSyncLog(ok)
    \/ CacheSyncRollback
    \/ \E items \in SaleInputs \ {<< >>} : CacheAddPendingSale(items)
    \/ CacheRead
    \/ CacheTick

SpecCache == InitCache /\ [][NextCache]_vars

-----------------------------------------------------------------------------
(* PdvApiService.syncPendingSales over LocalCacheService's pending queue.
   forceSync is an IPC handler without an in-flight guard, so up to MaxRuns
   calls of syncPendingSales are followed side by side; each await of the
   loop is a point where another call runs. *)

\* The sale every enqueue of this variant carries.
PushedSale == SalePayload(<< Item("A", 1, 3) >>)

PendingIds(q) == {i \in 1..Len(q) : q[i].status = "PENDENTE"}

\* SELECT * FROM vendas_pendentes WHERE status = 'PENDENTE' ORDER BY created_at ASC:
\* every order of the PENDENTE rows in which created_at does not decrease.  Rows
\* of one created_at value (CURRENT_TIMESTAMP, whole seconds) have no order
\* between them: the statement names no second sort key.
PendingOrders(q, at) ==
    LET ids == PendingIds(q)
        n   == Cardinality(ids)
    IN  {s \in [1..n -> ids] :
            /\ \A i, j \in 1..n : i # j => s[i] # s[j]
            /\ \A i \in 1..n : \A j \in 1..n : i < j => at[s[i]] <= at[s[j]]}

\* createSale while offline (or after a failed POST): cache.addPendingSale;
\* created_at takes the DEFAULT CURRENT_TIMESTAMP of the insert.
PushEnqueue ==
    /\ nCreated < MaxSales
    /\ nCreated' = nCreated + 1
    /\ vendas_pendentes' = addPendingSale(vendas_pendentes, nCreated + 1, PushedSale)
    /\ created_at' = Append(created_at, clock)
    /\ UNCHANGED <<phase, pdvIsOnline, cache_produtos, lastSyncTime, cache_config,
                   clock, authority, syncRun, lastOp, pushRuns, acked>>
    /\ UNCHANGED <<httpVars, netVars, txnVars, cacheVars>>

\* The wall clock reaches the next second.
PushTick ==
    /\ clock < MaxClock
    /\ clock' = clock + 1
    /\ UNCHANGED <<phase, pdvIsOnline, cache_produtos, vendas_pendentes, lastSyncTime,
                   cache_config, authority, nCreated, syncRun, lastOp, pushVars>>
    /\ UNCHANGED <<httpVars, netVars, txnVars, cacheVars>>

\* syncPendingSales up to its loop: the list is fetched; an empty list returns
\* at once.
PushStart(r) ==
    /\ pushRuns[r].pc = "idle"
    /\ \E order \in PendingOrders(vendas_pendentes, created_at) :
           pushRuns' = [pushRuns EXCEPT ![r] =
               IF order = << >> THEN NoRun
               ELSE [pc |-> "push", todo |-> order, list |-> order, sent |-> << >>]]
    /\ UNCHANGED <<apiVars, created_at, acked>>
    /\ UNCHANGED <<httpVars, netVars, txnVars, cacheVars>>

\* One iteration of the loop: POST /vendas for the next sale of the list; a
\* success response marks it SINCRONIZADA, anything else marks it ERRO.  With
\* recorded = FALSE the cache writes throw: the mark of the try block, then
\* markSaleAsError in the catch of the iteration, and that second throw leaves
\* the for loop for the catch of syncPendingSales: the call is over.
PushSale(r, outcome, recorded) ==
    LET run == pushRuns[r]
        id  == Head(run.todo)
        tag == vendas_pendentes[id].tag
    IN  /\ run.pc = "push"
        /\ run.todo # << >>
        /\ Applied(outcome) => authority.applied[tag] < MaxApplied
        /\ authority' = IF Applied(outcome) THEN Apply(authority, tag) ELSE authority
        /\ acked' = IF outcome = "ok" THEN acked \cup {tag} ELSE acked
        /\ vendas_pendentes' =
               IF ~recorded THEN vendas_pendentes
               ELSE IF outcome = "ok" THEN markSaleAsSynced(vendas_pendentes, id)
               ELSE markSaleAsError(vendas_pendentes, id)
        /\ pushRuns' = [pushRuns EXCEPT ![r] =
               IF recorded
               THEN [run EXCEPT !.todo = Tail(run.todo), !.sent = Append(run.sent, id)]
               ELSE [run EXCEPT !.todo = << >>, !.sent = Append(run.sent, id),
                                !.pc = "idle"]]
        /\ UNCHANGED <<phase, pdvIsOnline, cache_produtos, lastSyncTime, cache_config,
                       clock, nCreated, syncRun, lastOp, created_at>>
        /\ UNCHANGED <<httpVars, netVars, txnVars, cacheVars>>

\* The loop is through the list: syncPendingSales logs its counts and returns.
PushReturn(r) ==
    /\ pushRuns[r].pc = "push"
    /\ pushRuns[r].todo = << >>
    /\ pushRuns' = [pushRuns EXCEPT ![r].pc = "idle"]
    /\ UNCHANGED <<apiVars, created_at, acked>>
    /\ UNCHANGED <<httpVars, netVars, txnVars, cacheVars>>

InitPush ==
    /\ HttpIdle
    /\ NetIdle
    /\ TxnIdle
    /\ CacheIdle
    /\ phase = "ready"
    /\ pdvIsOnline = TRUE
    /\ cache_produtos = {}
    /\ vendas_pendentes = << >>
    /\ lastSyncTime = 0
    /\ cache_config = 0
    /\ clock = 1
    /\ authority = [catalog |-> << >>, applied |-> [t \in 1..MaxSales |-> 0]]
    /\ nCreated = 0
    /\ syncRun = IdleRun
    /\ lastOp = NoOp
    /\ created_at = << >>
    /\ pushRuns = [r \in 1..MaxRuns |-> NoRun]
    /\ acked = {}

NextPush ==
    \/ PushEnqueue
    \/ PushTick
    \/ \E r \in 1..MaxRuns : PushStart(r)
    \/ \E r \in 1..MaxRuns : \E outcome \in PostOutcomes : \E recorded \in BOOLEAN :
           PushSale(r, outcome, recorded)
    \/ \E r \in 1..MaxRuns : PushReturn(r)

SpecPush == InitPush /\ [][NextPush]_vars

-----------------------------------------------------------------------------
(* HttpApiService.makeRequest: one remote call, its attempts and the result its
   caller gets.  The promise of the call settles once: a resolve after the
   first leaves the result as it is. *)

\* The calls PdvApiService makes.
Requests == {"GET /produtos/sync", "GET /produtos/codigo", "POST /vendas"}

\* What a response that reached its end resolves with: the parsed body, an
\* "Erro HTTP" failure, or a "Resposta JSON invalida" failure.
ResponseKinds == {"success", "httpError", "badJson"}

\* resolve(value) of the call's promise.
Resolve(result, value) == IF result = "none" THEN value ELSE result

\* The 'error' handler of an attempt: a retry in 2 s while retryCount < retries,
\* else the "Erro de conexao" failure.
OnError(h) ==
    IF h.retryCount < retries
    THEN [h EXCEPT !.pc = "backoff"]
    ELSE [h EXCEPT !.pc = "done", !.result = Resolve(h.result, "error")]

\* get / post: makeRequest with retryCount = 0 sends the first attempt.
HttpRequest(request) ==
    /\ http.pc \in {"idle", "done"}
    /\ http' = [pc |-> "inflight", request |-> request, retryCount |-> 0,
                result |-> "none", sent |-> 1, received |-> 0]
    /\ UNCHANGED <<apiVars, netVars, txnVars, cacheVars, pushVars>>

\* The response of the attempt in flight reaches its end.
HttpResponse(kind) ==
    /\ http.pc = "inflight"
    /\ http' = [http EXCEPT !.pc = "done", !.result = Resolve(@, kind),
                            !.received = @ + 1]
    /\ UNCHANGED <<apiVars, netVars, txnVars, cacheVars, pushVars>>

\* The attempt in flight fails at the connection: refused before the authority
\* got the request, or reset after it did.
HttpError(received) ==
    /\ http.pc = "inflight"
    /\ http' = OnError([http EXCEPT !.received = IF received THEN @ + 1 ELSE @])
    /\ UNCHANGED <<apiVars, netVars, txnVars, cacheVars, pushVars>>

\* The socket of the attempt in flight is idle for config.timeout: req.destroy(),
\* then resolve with the timeout failure.  Destroying a request whose response
\* has not begun emits 'error' (socket hang up) on it, and the 'error' handler
\* runs; when the response has begun (started), the request gets no 'error'.
HttpTimeout(received, started) ==
    /\ http.pc = "inflight"
    /\ started => received
    /\ LET h == [http EXCEPT !.result = Resolve(@, "timeout"),
                             !.received = IF received THEN @ + 1 ELSE @]
       IN  http' = IF started THEN [h EXCEPT !.pc = "done"] ELSE OnError(h)
    /\ UNCHANGED <<apiVars, netVars, txnVars, cacheVars, pushVars>>

\* The 2 s timer of the 'error' handler fires: makeRequest(retryCount + 1),
\* whose result goes to the resolve of the call.
HttpRetry ==
    /\ http.pc = "backoff"
    /\ http' = [http EXCEPT !.pc = "inflight", !.retryCount = @ + 1, !.sent = @ + 1]
    /\ UNCHANGED <<apiVars, netVars, txnVars, cacheVars, pushVars>>

InitHttp ==
    /\ PushIdle
    /\ ApiIdle
    /\ NetIdle
    /\ TxnIdle
    /\ CacheIdle
    /\ http = NoRequest

NextHttp ==
    \/ \E request \in Requests : HttpRequest(request)
    \/ \E kind \in ResponseKinds : HttpResponse(kind)
    \/ \E received \in BOOLEAN : HttpError(received)
    \/ \E received \in BOOLEAN : \E started \in BOOLEAN : HttpTimeout(received, started)
    \/ HttpRetry

SpecHttp == InitHttp /\ [][NextHttp]_vars

-----------------------------------------------------------------------------
(* Claims *)

OpenHandles == {h \in 1..Len(handles) : handles[h].open}

\* C1 (as claimed): no lost sale.  Once a replay cycle has run to its end with
\* the primary connected, every sale that createSale accepted while offline
\* (a row of the backup store with sincronizado = false) is synced, that is,
\* present at the authority (the primary store); the shared-database variant
\* has no FAILED mark a sale could carry instead.
C1_NoLostSale ==
    netLast.result = "replayed" =>
        \A v \in stores.backup.vendas :
            ~v.sincronizado => \E w \in stores.primary.vendas : w.tag = v.tag

\* C2 (as claimed): no duplicated sale.  A sale created once at the terminal is
\* applied at the authority at most once.
C2_NoDuplicatedSale ==
    \A t \in 1..MaxSales : authority.applied[t] <= 1

\* C3 (as claimed): at most one active backend.  In every reachable state at
\* most one storage handle, primary or backup, is open.
C3_AtMostOneOpenHandle ==
    Cardinality(OpenHandles) <= 1

\* C4 (as claimed): no operation is left without an active backend.  Whenever
\* the service is initialized and no mode transition is in flight, this.db is
\* an open handle, on the primary when ONLINE and on the backup when OFFLINE.
C4_AlwaysAnActiveBackend ==
    (netPhase = "ready" /\ tasks = << >>) =>
        /\ db # 0
        /\ handles[db].open
        /\ handles[db].store = (IF isOnline THEN "primary" ELSE "backup")

\* C5 (as claimed): callers never see ONLINE while the backup is the effective
\* backend.  In every state of the initialized service, transitions in flight
\* included, isOnline implies that this.db is the primary handle, and no
\* createSale writes a sale flagged sincronizado = true to the backup store.
C5_OnlineImpliesPrimary ==
    netPhase = "ready" =>
        /\ isOnline => handles[db].store = "primary"
        /\ (netLast.op = "createSale" /\ netLast.result = "ok" /\ netLast.store = "backup")
              => ~netLast.sincronizado

\* The rows of call c that other connections can see.
SeenHeader(c) == {v \in Committed.vendas : v.call = c}
SeenLines(c) == {l \in Committed.venda_items : l.call = c}

\* C6 (as claimed): sale atomicity.  What other connections see of a sale is
\* all of it or none of it: a header with every line, or no row at all; and a
\* createSale that failed left no row behind.
C6_SaleAtomicity ==
    \A c \in 1..MaxCalls :
        /\ \/ SeenHeader(c) = {} /\ SeenLines(c) = {}
           \/ /\ Cardinality(SeenHeader(c)) = 1
              /\ {l.line : l \in SeenLines(c)} = 1..Len(calls[c].items)
        /\ calls[c].result = "error" => SeenHeader(c) = {} /\ SeenLines(c) = {}

\* C7 (as claimed): createSale is rejected with InsufficientStock whenever the
\* quantity requested for a cached product, summed over the lines of the sale,
\* exceeds that product's cached stock.
C7_InsufficientStockRejected ==
    (/\ lastOp.op = "createSale"
     /\ \A c \in CodesOf(lastOp.items) : CacheFind(lastOp.before, c) # Null
     /\ \E c \in CodesOf(lastOp.items) :
            QtyOf(lastOp.items, c) > CacheFind(lastOp.before, c).estoque)
    => lastOp.result = "InsufficientStock"

\* C8 (as claimed): a successful createSale decrements the cached stock of
\* every product sold by exactly the quantity sold.
C8_StockDecremented ==
    (lastOp.op = "createSale" /\ lastOp.result = "ok") =>
        \A c \in CodesOf(lastOp.items) :
            CacheFind(lastOp.before, c) # Null =>
                /\ CacheFind(cache_produtos, c) # Null
                /\ CacheFind(cache_produtos, c).estoque =
                       CacheFind(lastOp.before, c).estoque - QtyOf(lastOp.items, c)

\* C9 (as claimed): every product of the local product cache has
\* estoque >= 0 and preco >= 0.
C9_StockAndPriceNonNegative ==
    \A r \in cache_produtos : r.estoque >= 0 /\ r.preco >= 0

\* C10 (as claimed): every sale produced by createSale, returned to the caller
\* or queued as a pending payload, has total equal to the sum over its lines of
\* quantity * unit price.
C10_TotalIsSumOfLines ==
    /\ (lastOp.op = "createSale" /\ lastOp.result = "ok") =>
           lastOp.total = ReduceTotal(lastOp.items)
    /\ \A i \in 1..Len(vendas_pendentes) :
           /\ vendas_pendentes[i].venda_data.hasTotal
           /\ vendas_pendentes[i].venda_data.total =
                  ReduceTotal(vendas_pendentes[i].venda_data.items)

\* The ids getPendingSales returns.
ReadyIds == {getPendingSales(vendas_pendentes)[j] :
                j \in 1..Len(getPendingSales(vendas_pendentes))}

\* C11 (as claimed): markFailed leaves the entry PENDING.  An entry that has
\* failed at least once and not more often than the maximum, and is not
\* synchronized, has status PENDENTE and is returned by getPendingSales.
C11_FailedStaysPending ==
    \A i \in 1..Len(vendas_pendentes) :
        (/\ vendas_pendentes[i].tentativas >= 1
         /\ vendas_pendentes[i].tentativas <= retries
         /\ vendas_pendentes[i].status # "SINCRONIZADA")
            => (vendas_pendentes[i].status = "PENDENTE" /\ i \in ReadyIds)

\* C12 (as claimed): retry bound.  An entry is FAILED (status ERRO) exactly
\* when it has failed the maximum number of attempts, never after fewer, and
\* a FAILED entry is not returned by getPendingSales.
C12_RetryBound ==
    \A i \in 1..Len(vendas_pendentes) :
        /\ vendas_pendentes[i].status = "ERRO" =>
               (vendas_pendentes[i].tentativas >= retries /\ i \notin ReadyIds)
        /\ (vendas_pendentes[i].tentativas >= retries
            /\ vendas_pendentes[i].status # "SINCRONIZADA") =>
               vendas_pendentes[i].status = "ERRO"

\* NetworkDatabaseService.getSyncPendingCount: the rows of sync_log with
\* sincronizado = false in the database this.db is open on; 0 without a
\* handle or when the query throws.
getSyncPendingCount ==
    IF db = 0 THEN 0
    ELSE IF Usable(db) /\ stores[handles[db].store].schema
         THEN Cardinality(stores[handles[db].store].sync_log)
         ELSE 0

\* C13 (as claimed): offline round trip.  Once the terminal is back ONLINE
\* and the push of what accumulated offline has run, the pending count is 0
\* and every sale made offline is marked synchronized.
C13_OfflineRoundTrip ==
    (netLast.result = "replayed" /\ isOnline) =>
        /\ getSyncPendingCount = 0
        /\ \A v \in stores.backup.vendas : v.sincronizado

\* C14 (as claimed): forceSync reports success only if both halves succeeded:
\* when it returns true, no pending sale failed to push in that run.
C14_ForceSyncBothHalves ==
    (lastOp.op = "forceSync" /\ lastOp.result = "true") => lastOp.failed = 0

\* C15 (as claimed): a createSale that passed validation never returns an
\* error: when the direct write fails it queues one entry and returns the
\* sale with sincronizado = false.
C15_WriteFailureNotSurfaced ==
    (lastOp.op = "createSale" /\ lastOp.result \notin Rejections) =>
        /\ lastOp.result = "ok"
        /\ lastOp.sincronizado \/ lastOp.queued = Len(vendas_pendentes)

\* C16: a createSale rejected for a validation failure writes nothing: the
\* pending queue, the authority's sales and the cached products are the same
\* before and after the call.
C16_RejectedWritesNothing ==
    [][(lastOp'.op = "createSale" /\ lastOp'.result \in Rejections) =>
           /\ vendas_pendentes' = vendas_pendentes
           /\ authority' = authority
           /\ cache_produtos' = cache_produtos]_vars

\* C16 witness: a sale was rejected for insufficient stock while the queue
\* already held an entry.
C16_Witness ==
    /\ lastOp.op = "createSale"
    /\ lastOp.result = "InsufficientStock"
    /\ Len(vendas_pendentes) = 1

\* C18 (as claimed): findProduct is answered from the local cache: what it
\* returns is what the cache lookup returns.
C18_FindServedFromCache ==
    lastOp.op = "findProduct" =>
        lastOp.produto = CacheFind(cache_produtos, lastOp.codigo)

\* C17 (as claimed): once addPendingSale has returned, the sale is in the
\* pending queue and stays there (nothing in this specification marks a
\* sale synced or failed).
C17_EnqueuedStaysQueued ==
    \A t \in 1..nCreated :
        \E i \in 1..Len(vendas_pendentes) : vendas_pendentes[i].tag = t

\* The rows a full replacement with this list leaves.
RowsOf(produtos) == {produtos[i] : i \in 1..Len(produtos)}

\* C19 (as claimed): replaceAll is atomic and carries its metadata.  What a
\* reader gets is the catalog and the last-sync time from before the
\* replacement, or the whole new catalog with the new last-sync time.
C19_AtomicReplaceWithMetadata ==
    cacheLast.op = "read" =>
        \/ /\ cacheLast.view.produtos = syncCall.old.produtos
           /\ cacheLast.view.config = syncCall.old.config
        \/ /\ cacheLast.view.produtos = RowsOf(syncCall.produtos)
           /\ cacheLast.view.config = lastSyncTime

\* C20: idempotent replace.  From every cache the terminal reaches and for
\* every list, replacing twice with the list leaves the product set that
\* replacing once leaves; and a syncProdutos that succeeds on a cache that
\* already holds the rows of its list leaves those rows.
C20_IdempotentReplace ==
    /\ \A produtos \in CatalogResponses :
           LET once == SyncProdutos(cache_produtos, produtos).rows
           IN  SyncProdutos(once, produtos).rows = once
    /\ (/\ cacheLast.op = "syncProdutos"
        /\ cacheLast.result = "ok"
        /\ syncCall.old.produtos = RowsOf(syncCall.produtos))
           => cache_produtos = syncCall.old.produtos

\* C20 witness: syncProdutos succeeded on a cache that already held the rows
\* of its list.
C20_Witness ==
    /\ cacheLast.op = "syncProdutos"
    /\ cacheLast.result = "ok"
    /\ cache_produtos # {}
    /\ syncCall.old.produtos = RowsOf(syncCall.produtos)

\* C21 (as claimed): a pull that fails leaves the cache as it was: after a
\* syncProdutos that threw, the cached products, the stored last-sync time
\* and the last-sync time in memory are those from before the call.
C21_FailedPullPreservesCache ==
    (cacheLast.op = "syncProdutos" /\ cacheLast.result = "error") =>
        /\ cache_produtos = syncCall.old.produtos
        /\ cache_config = syncCall.old.config
        /\ lastSyncTime = syncCall.lastSyncTime

\* C23 (as claimed): an incremental pull merges by key.  After a pull that
\* was requested with ultimaSync and succeeded, every product that was cached
\* before and whose id is not in the received list is still cached, unchanged.
C23_IncrementalPullMerges ==
    (cacheLast.op = "syncProdutos" /\ cacheLast.result = "ok" /\ syncCall.ultimaSync # 0) =>
        \A r \in syncCall.old.produtos :
            (\A i \in 1..Len(syncCall.produtos) : syncCall.produtos[i].id # r.id)
                => r \in cache_produtos

\* C22 (as claimed): the status is computed from local metadata only, and
\* its pending count is the number of pending entries.  Between transitions,
\* the database getNetworkStatus queries is the local one, and sync_pending
\* counts every operation the terminal logged as not yet synchronized.
C22_StatusFromLocalMetadata ==
    (netPhase = "ready" /\ tasks = << >> /\ db # 0 /\ handles[db].open) =>
        /\ handles[db].store = "backup"
        /\ getSyncPendingCount =
               Cardinality(stores.backup.sync_log \cup stores.primary.sync_log)

\* C24 (as claimed): mode transitions are serialized: at most one transition
\* (probe switch, reconnection, forced sync) is in progress at any time.
C24_TransitionsSerialized == Len(tasks) <= 1

\* C30 (as claimed): a createSale that fails on the primary while ONLINE
\* makes the terminal leave ONLINE: right after the failure a switch to the
\* backup is under way.
C30_WriteFailureSwitchesToBackup ==
    (netLast.op = "createSale" /\ netLast.result = "error" /\ isOnline) =>
        \E i \in 1..Len(tasks) : tasks[i].kind = "probe"

\* C25 (as claimed): the push loop treats its items independently.  When a
\* call of syncPendingSales is over, every sale of the list it fetched has been
\* submitted, whatever happened to the sales before it: an error response, a
\* thrown error, or a failure while recording that sale's error.
C25_ItemsIndependent ==
    \A r \in 1..MaxRuns :
        pushRuns[r].pc = "idle" => pushRuns[r].sent = pushRuns[r].list

\* C26 (as claimed): pending sales are submitted in enqueue order.  Row ids
\* grow with the enqueue order, so within one call a sale enqueued earlier is
\* submitted before a sale enqueued later, also when both were enqueued within
\* one timestamp granule.
C26_SubmittedInEnqueueOrder ==
    \A r \in 1..MaxRuns :
        \A i, j \in 1..Len(pushRuns[r].sent) :
            i < j => pushRuns[r].sent[i] < pushRuns[r].sent[j]

\* C27: a pending sale is marked SINCRONIZADA only after the authority answered
\* its submission with success, and no step removes a row from the queue: after
\* every step each row that was in the queue is still there, at its place, with
\* its sale, and each row that the step turned SINCRONIZADA is a sale the
\* authority has acknowledged.
C27_SyncedOnlyAfterAck ==
    [][ /\ Len(vendas_pendentes') >= Len(vendas_pendentes)
        /\ \A i \in 1..Len(vendas_pendentes) :
               /\ vendas_pendentes'[i].tag = vendas_pendentes[i].tag
               /\ vendas_pendentes'[i].venda_data = vendas_pendentes[i].venda_data
        /\ \A i \in 1..Len(vendas_pendentes') :
               vendas_pendentes'[i].status = "SINCRONIZADA" =>
                   vendas_pendentes'[i].tag \in acked' ]_vars

\* C27, its case: one sale is SINCRONIZADA and acknowledged, and another sale,
\* whose submission failed, is still in the queue as ERRO.
C27_Witness ==
    \E i, j \in 1..Len(vendas_pendentes) :
        /\ vendas_pendentes[i].status = "SINCRONIZADA"
        /\ vendas_pendentes[i].tag \in acked
        /\ vendas_pendentes[j].status = "ERRO"
        /\ vendas_pendentes[j].tag \notin acked

\* C28 (as claimed): sync runs of one kind never overlap.  At most one call of
\* syncPendingSales is inside its loop, and no pending sale is submitted by two
\* calls that run side by side.
C28_PushRunsNeverOverlap ==
    \A r1, r2 \in 1..MaxRuns :
        (r1 # r2 /\ pushRuns[r1].pc = "push" /\ pushRuns[r2].pc = "push") =>
            \A i \in 1..Len(pushRuns[r1].list) : \A j \in 1..Len(pushRuns[r2].list) :
                pushRuns[r1].list[i] # pushRuns[r2].list[j]

\* C29 (as claimed): every remote call ends with a result after at most
\* retries + 1 attempts, and once the caller has received the result of a call
\* (a timeout failure, for one) no further attempt of that request is sent: no
\* attempt is in flight and no retry is scheduled.
C29_ResultEndsRequest ==
    /\ http.sent <= retries + 1
    /\ http.result # "none" => http.pc \notin {"inflight", "backoff"}

\* C31 (as claimed): the reconnection performs its steps in order, and reports
\* ONLINE only after the replay of the operations accumulated offline: while a
\* reconnection (by the timer or by forceSyncToNetwork) is inside the replay,
\* the terminal is not yet ONLINE.
C31_OnlineOnlyAfterReplay ==
    \A i \in 1..Len(tasks) :
        (tasks[i].kind \in {"reconnect", "force"} /\ tasks[i].pc \in {"s1", "s2", "s3"})
            => ~isOnline

C34_InitFailsOnlyWithoutBackend ==
    (netPhase = "failed" /\ netLast.op = "init") => netLast.store = "backup"

\* C35 (as claimed): reconnection attempts run only while OFFLINE.  Whenever the
\* terminal is ONLINE and no transition is in progress, no reconnection timer
\* is armed.
C35_NoReconnectionTimerWhileOnline ==
    (netPhase = "ready" /\ tasks = << >> /\ isOnline) => ~reconnectionTimer

\* C39 (as claimed): after close() has returned the service stays closed.  No
\* later step opens a backend handle, changes the connection state or arms a
\* timer.
C39_StaysClosed ==
    [][ netPhase = "closed" =>
            /\ \A h \in 1..Len(handles') :
                   handles'[h].open => (h <= Len(handles) /\ handles[h].open)
            /\ isOnline' = isOnline
            /\ isOfflineMode' = isOfflineMode
            /\ reconnectionTimer' = reconnectionTimer
            /\ syncTimer' = syncTimer ]_vars

\* C40: the two connection flags agree.  In every reachable state, in or out of
\* a transition, NetworkDatabaseService.isOnline is the negation of
\* NetworkConfig.isOfflineMode.
C40_FlagsAgree == isOnline = ~isOfflineMode

\* C40, its case: the terminal is on the backup, a later connect to the
\* primary has failed, no transition is in progress, and the flags say OFFLINE.
C40_Witness ==
    /\ netPhase = "ready"
    /\ tasks = << >>
    /\ netLast.result = "error"
    /\ netLast.op \in {"reconnect", "force"}
    /\ ~isOnline
    /\ isOfflineMode

\* C32 (as claimed): whenever no pull is in flight, the last sync time held in
\* memory equals the one persisted in cache_config.
C32_MemoryEqualsPersisted ==
    syncCall.pc = "idle" => lastSyncTime = cache_config

\* C36 (as claimed): every sale committed while OFFLINE has its unsynchronized
\* sync_log entry, written in the same transaction: no committed state holds a
\* sale with sincronizado = false and no sync_log entry for it.
C36_OfflineSaleHasLogEntry ==
    \A v \in Committed.vendas :
        ~v.sincronizado => v.id \in Committed.sync_log

\* C37 (as claimed): the pending-entry state machine.  Over every step, a row
\* that is SINCRONIZADA stays SINCRONIZADA, a row that is ERRO stays ERRO, and
\* tentativas does not decrease.
C37_PendingStateMachine ==
    [][ \A i \in 1..Len(vendas_pendentes) :
            /\ vendas_pendentes[i].status = "SINCRONIZADA" =>
                   vendas_pendentes'[i].status = "SINCRONIZADA"
            /\ vendas_pendentes[i].status = "ERRO" =>
                   vendas_pendentes'[i].status = "ERRO"
            /\ vendas_pendentes'[i].tentativas >= vendas_pendentes[i].tentativas ]_vars

\* C38 (as claimed): each new sale gets max(numero_venda) + 1 of its store,
\* also when createSale calls interleave on the handle: the number a call has
\* read is free when the call inserts its sale under it.
C38_NumberFreeAtInsert ==
    \A c \in 1..MaxCalls :
        calls[c].pc = "header" =>
            \A v \in data.vendas : v.numero_venda # calls[c].max_numero

====
